---- MODULE Spec2Model ----
(***************************************************************************)
(* Model of model.py of lichess-bot: the Challenge acceptance policy       *)
(* (is_supported and the predicates it chains), Challenge.score, and the   *)
(* Game deadline timers (ping, should_abort_now, should_disconnect_now).   *)
(*                                                                         *)
(* Python values: an absent optional number is None (a sentinel below the  *)
(* non-negative numbers of the payload), a malformed number (a value that  *)
(* cannot be ordered against a number, such as a string) is Bad, math.inf  *)
(* is inf, an absent optional string is NoneStr.  A call that can raise    *)
(* returns Ret(v) or Raise.                                                *)
(***************************************************************************)
EXTENDS Integers, Sequences, FiniteSets, TLC

VARIABLES
    now,                    \* the clock the timers read
    config,                 \* the Configuration
    recent_bot_challenges,  \* challenger name -> list of Timer, owned by the caller
    challenge,              \* the Challenge under evaluation
    ret,                    \* the last call and what it returned
    game,                   \* the Game
    moves_played,           \* how many moves the server has reported
    last_ping               \* the last Game.ping call

vars == <<now, config, recent_bot_challenges, challenge, ret, game, moves_played,
          last_ping>>

-----------------------------------------------------------------------------
(* Bounds *)

MaxTime == 2
MaxVal == 1
MaxTimers == 2
MaxLimit == 2
MaxMoves == 6
MaxDelay == 2

-----------------------------------------------------------------------------
(* Python values *)

None == -1
Bad == -2
inf == 1000
NoneStr == "None"

Ret(v) == [exc |-> FALSE, val |-> v]
Raise == [exc |-> TRUE]

\* a <= b on Python numbers: ordering None or a non-number raises TypeError
PyLe(a, b) == IF a \in {None, Bad} \/ b \in {None, Bad} THEN Raise ELSE Ret(a <= b)

\* a < b on Python numbers
PyLt(a, b) == IF a \in {None, Bad} \/ b \in {None, Bad} THEN Raise ELSE Ret(a < b)

\* r and s, s evaluated only when r is true
PyAnd(r, s) == IF r.exc THEN r ELSE IF r.val THEN s ELSE r

\* a <= b <= c: a <= b and b <= c, b <= c evaluated only when a <= b
PyChain(a, b, c) == PyAnd(PyLe(a, b), PyLe(b, c))

\* x or y on Optional[str]: None is falsy, a decline reason is truthy
PyOrLast(x, y) == IF y # NoneStr THEN y ELSE x
PyOr(x, y) == IF x # NoneStr THEN x ELSE y

-----------------------------------------------------------------------------
(* Timer (timer.py): a countdown started at construction *)

Timer(duration) == [starting_time |-> now, duration |-> duration]

is_expired(timer) == now - timer.starting_time >= timer.duration

-----------------------------------------------------------------------------
(* Challenge *)

user_profile == [username |-> "me"]

challenger_master_title_unsuppressed(title) == title
challenger_master_title_of(title) == IF title = "BOT" THEN NoneStr ELSE title

Challenge(c_info, profile) ==
    LET title == c_info.challenger.title
        name == IF c_info.challenger.name = NoneStr THEN "Anonymous"
                ELSE c_info.challenger.name
    IN [rated |-> c_info.rated,
        variant |-> c_info.variant,
        speed |-> c_info.speed,
        increment |-> c_info.timeControl.increment,
        base |-> c_info.timeControl.limit,
        days |-> c_info.timeControl.daysPerTurn,
        challenger |-> c_info.challenger,
        challenger_title |-> title,
        challenger_is_bot |-> (title = "BOT"),
        challenger_master_title |-> challenger_master_title_of(title),
        challenger_name |-> name,
        challenger_rating_int |-> IF c_info.challenger.rating = None THEN 0
                                  ELSE c_info.challenger.rating,
        from_self |-> (name = profile.username)]

is_supported_variant(self, cfg) == self.variant \in cfg.variants

is_normal_clock_truthy(self) == self.base \notin {None, 0} /\ self.increment \notin {None, 0}
is_normal_clock(self) == self.base # None /\ self.increment # None

is_supported_time_control(self, cfg) ==
    IF self.speed \notin cfg.time_controls THEN Ret(FALSE)
    ELSE IF is_normal_clock(self)
         THEN PyAnd(PyChain(cfg.min_increment, self.increment, cfg.max_increment),
                    PyChain(cfg.min_base, self.base, cfg.max_base))
    ELSE IF self.days # None
         THEN PyChain(cfg.min_days, self.days, cfg.max_days)
    ELSE Ret(cfg.max_days = inf)

mode(self) == IF self.rated THEN "rated" ELSE "casual"

is_supported_mode(self, cfg) == mode(self) \in cfg.modes

\* recent_bot_challenges[name] of a defaultdict(list)
DictGet(rbc, name) == IF name \in DOMAIN rbc THEN rbc[name] ELSE <<>>

Unexpired(timers) == SelectSeq(timers, LAMBDA timer : ~is_expired(timer))

\* lines 61-63: the entry of this challenger's name becomes its unexpired timers
prune_all(self, rbc) ==
    [n \in DOMAIN rbc \cup {self.challenger_name} |-> Unexpired(DictGet(rbc, n))]
prune(self, rbc) ==
    [n \in DOMAIN rbc \cup {self.challenger_name} |->
        IF n = self.challenger_name THEN Unexpired(DictGet(rbc, n)) ELSE rbc[n]]

\* lines 64-67, on the pruned map
recent_allows_inclusive(self, cfg, pruned) ==
    IF ~self.challenger_is_bot THEN Ret(TRUE)
    ELSE IF cfg.max_recent_bot_challenges = None THEN Ret(TRUE)
    ELSE PyLe(Len(pruned[self.challenger_name]), cfg.max_recent_bot_challenges)
recent_allows(self, cfg, pruned) ==
    IF ~self.challenger_is_bot THEN Ret(TRUE)
    ELSE IF cfg.max_recent_bot_challenges = None THEN Ret(TRUE)
    ELSE PyLt(Len(pruned[self.challenger_name]), cfg.max_recent_bot_challenges)

\* the call: its result and the map it leaves
is_supported_recent(self, cfg, rbc) ==
    LET pruned == prune(self, rbc)
        r == recent_allows(self, cfg, pruned)
    IN IF r.exc THEN [exc |-> TRUE, rbc |-> pruned]
       ELSE [exc |-> FALSE, val |-> r.val, rbc |-> pruned]

decline_due_to(requirement_met, decline_reason) ==
    IF requirement_met THEN NoneStr ELSE decline_reason

\* lines 78-84: the or-chain; each operand is evaluated only when all before it
\* returned None
decline_reason_of(self, cfg, rbc) ==
    LET bot == PyOr(decline_due_to(cfg.accept_bot \/ ~self.challenger_is_bot, "noBot"),
                    decline_due_to(~cfg.only_bot \/ self.challenger_is_bot, "onlyBot"))
    IN IF bot # NoneStr THEN [exc |-> FALSE, val |-> bot, rbc |-> rbc]
       ELSE LET tc == is_supported_time_control(self, cfg)
            IN IF tc.exc THEN [exc |-> TRUE, rbc |-> rbc]
               ELSE LET pure ==
                          PyOr(decline_due_to(tc.val, "timeControl"),
                          PyOr(decline_due_to(is_supported_variant(self, cfg), "variant"),
                          PyOr(decline_due_to(is_supported_mode(self, cfg),
                                              IF self.rated THEN "casual" ELSE "rated"),
                               decline_due_to(self.challenger_name \notin cfg.block_list,
                                              "generic"))))
                    IN IF pure # NoneStr THEN [exc |-> FALSE, val |-> pure, rbc |-> rbc]
                       ELSE LET rec == is_supported_recent(self, cfg, rbc)
                            IN IF rec.exc THEN rec
                               ELSE [exc |-> FALSE,
                                     val |-> decline_due_to(rec.val, "later"),
                                     rbc |-> rec.rbc]

\* lines 74, 86-90: try / return / except Exception
try_except_reraise(r) ==
    IF r.exc THEN [raised |-> TRUE, logged |-> FALSE, val |-> <<FALSE, NoneStr>>, rbc |-> r.rbc]
    ELSE [raised |-> FALSE, logged |-> FALSE, val |-> <<r.val = NoneStr, r.val>>, rbc |-> r.rbc]
try_except(r) ==
    IF r.exc THEN [raised |-> FALSE, logged |-> TRUE, val |-> <<FALSE, "generic">>, rbc |-> r.rbc]
    ELSE [raised |-> FALSE, logged |-> FALSE, val |-> <<r.val = NoneStr, r.val>>, rbc |-> r.rbc]

is_supported_no_self_check(self, cfg, rbc) == try_except(decline_reason_of(self, cfg, rbc))
is_supported(self, cfg, rbc) ==
    IF self.from_self
    THEN [raised |-> FALSE, logged |-> FALSE, val |-> <<TRUE, NoneStr>>, rbc |-> rbc]
    ELSE try_except(decline_reason_of(self, cfg, rbc))

score(self) ==
    LET rated_bonus == IF self.rated THEN 200 ELSE 0
        titled_bonus == IF self.challenger_master_title # NoneStr THEN 200 ELSE 0
    IN self.challenger_rating_int + rated_bonus + titled_bonus

-----------------------------------------------------------------------------
(* Game *)

\* The clock values of the payload are whole seconds, held here in seconds
\* (the payload's milliseconds / 1000): ten years in milliseconds is beyond
\* TLC's 32-bit integers, and Python's integers do not overflow.
ten_years_in_s == 3600 * 24 * 365 * 10

Game_disconnect_armed(json, username, base_url, abort_time) ==
    LET clock_initial == IF json.clock.initial = None THEN ten_years_in_s
                         ELSE json.clock.initial
        clock_increment == IF json.clock.increment = None THEN 0
                           ELSE json.clock.increment
    IN [state |-> json.state,
        clock_initial |-> clock_initial,
        clock_increment |-> clock_increment,
        abort_time |-> Timer(abort_time),
        terminate_time |-> Timer((clock_initial + clock_increment)
                                 + abort_time + 60),
        disconnect_time |-> Timer(abort_time)]
Game(json, username, base_url, abort_time) ==
    LET clock_initial == IF json.clock.initial = None THEN ten_years_in_s
                         ELSE json.clock.initial
        clock_increment == IF json.clock.increment = None THEN 0
                           ELSE json.clock.increment
    IN [state |-> json.state,
        clock_initial |-> clock_initial,
        clock_increment |-> clock_increment,
        abort_time |-> Timer(abort_time),
        terminate_time |-> Timer((clock_initial + clock_increment)
                                 + abort_time + 60),
        disconnect_time |-> Timer(0)]

\* state["moves"] is the server's move string, UCI moves separated by spaces
is_abortable(self) == Len(self.state.moves) < 6

ping_always_rearms(self, abort_in, terminate_in, disconnect_in) ==
    [self EXCEPT !.abort_time = Timer(abort_in),
                 !.terminate_time = Timer(terminate_in),
                 !.disconnect_time = Timer(disconnect_in)]
ping(self, abort_in, terminate_in, disconnect_in) ==
    [self EXCEPT !.abort_time = IF is_abortable(self) THEN Timer(abort_in) ELSE @,
                 !.terminate_time = Timer(terminate_in),
                 !.disconnect_time = Timer(disconnect_in)]

should_abort_now_timer_only(self) == is_expired(self.abort_time)
should_abort_now(self) == is_abortable(self) /\ is_expired(self.abort_time)

should_terminate_now(self) == is_expired(self.terminate_time)

should_disconnect_now(self) == is_expired(self.disconnect_time)

-----------------------------------------------------------------------------
(* Inputs *)

NoRet == [op |-> "none"]
NoPing == [pinged |-> FALSE]

CInfo(rated, variant, speed, increment, limit, daysPerTurn, title, name, rating) ==
    [rated |-> rated,
     variant |-> variant,
     speed |-> speed,
     timeControl |-> [increment |-> increment, limit |-> limit,
                      daysPerTurn |-> daysPerTurn],
     challenger |-> [title |-> title, name |-> name, rating |-> rating]]

Cfg(accept_bot, only_bot, min_increment, max_increment, min_base, max_base, min_days, max_days, modes, max_recent) ==
    [accept_bot |-> accept_bot,
     only_bot |-> only_bot,
     time_controls |-> {"blitz", "correspondence"},
     min_increment |-> min_increment,
     max_increment |-> max_increment,
     min_base |-> min_base,
     max_base |-> max_base,
     min_days |-> min_days,
     max_days |-> max_days,
     variants |-> {"standard"},
     modes |-> modes,
     block_list |-> {"alice"},
     max_recent_bot_challenges |-> max_recent]

DefaultCfg == Cfg(TRUE, FALSE, 0, 1, 0, 1, 1, inf, {"casual", "rated"}, None)

DefaultCInfo == CInfo(FALSE, "standard", "blitz", 0, 1, None, NoneStr, "bob", 1500)

DefaultGameJson == [clock |-> [initial |-> None, increment |-> None],
                    state |-> [moves |-> ""]]

\* the maps whose lists hold at most maxlen timers, started at time 0
TimerLists(maxlen) ==
    UNION {[1..n -> {[starting_time |-> 0, duration |-> d] : d \in 1..MaxTime}] :
           n \in 0..maxlen}

Maps(names, maxlen) ==
    UNION {[dom -> TimerLists(maxlen)] : dom \in SUBSET names}

PolicyConfigs ==
    {Cfg(ab, ob, 0, 1, 0, mb, 1, inf, modes, mr) :
        ab \in BOOLEAN, ob \in BOOLEAN, mb \in {0, 1, None},
        modes \in {{"casual"}, {"rated"}, {"casual", "rated"}},
        mr \in {None, 1, Bad}}

PolicyCInfos ==
    {CInfo(rated, variant, speed, 0, 1, None, title, name, 1500) :
        rated \in BOOLEAN, variant \in {"standard", "atomic"},
        speed \in {"blitz", "bullet"}, title \in {NoneStr, "BOT"},
        name \in {"me", "alice", "bob"}}

PolicyMaps ==
    {[n \in dom |-> <<[starting_time |-> 0, duration |-> 1]>>] :
        dom \in SUBSET {"alice", "bob"}}

TimeControlConfigs ==
    {Cfg(TRUE, FALSE, mini, maxi, minb, maxb, mind, maxd, {"casual", "rated"}, None) :
        mini \in 0..MaxVal, maxi \in 0..MaxVal, minb \in 0..MaxVal,
        maxb \in (0..MaxVal) \cup {None}, mind \in 0..MaxVal,
        maxd \in (0..MaxVal) \cup {inf}}

TimeControlCInfos ==
    {CInfo(FALSE, "standard", speed, i, b, d, NoneStr, "bob", 1500) :
        speed \in {"blitz", "bullet"}, i \in (0..MaxVal) \cup {None},
        b \in (0..MaxVal) \cup {None}, d \in (0..MaxVal) \cup {None}}

RecentConfigs ==
    {Cfg(TRUE, FALSE, 0, 1, 0, 1, 1, inf, {"casual", "rated"}, mr) :
        mr \in (0..MaxLimit) \cup {None}}

RecentCInfos ==
    {CInfo(FALSE, "standard", "blitz", 0, 1, None, title, name, 1500) :
        title \in {NoneStr, "BOT"}, name \in {"alice", "bob"}}

ScoreCInfos ==
    {CInfo(rated, "standard", "blitz", 0, 1, None, title, name, rating) :
        rated \in BOOLEAN, title \in {NoneStr, "BOT", "GM", "IM"},
        name \in {NoneStr, "alice", "me"}, rating \in {None, 0, 1500, 2000}}

GameJsons ==
    {[clock |-> c, state |-> [moves |-> ""]] :
        c \in {[initial |-> None, increment |-> None],
               [initial |-> 60, increment |-> 1]}}

UciMoves == {"e2e4", "e7e8q"}

-----------------------------------------------------------------------------
(* Operations *)

ChallengeFrame == UNCHANGED <<game, moves_played, last_ping>>

\* a challenge event: the caller constructs the Challenge
NewChallenge(c_infos) ==
    /\ \E c_info \in c_infos : challenge' = Challenge(c_info, user_profile)
    /\ ret' = NoRet
    /\ UNCHANGED <<now, config, recent_bot_challenges>>
    /\ ChallengeFrame

CallIsSupported ==
    /\ ret = NoRet
    /\ LET r == is_supported(challenge, config, recent_bot_challenges)
       IN /\ ret' = [op |-> "is_supported", raised |-> r.raised,
                     logged |-> r.logged, val |-> r.val]
          /\ recent_bot_challenges' = r.rbc
    /\ UNCHANGED <<now, config, challenge>>
    /\ ChallengeFrame

CallIsSupportedTimeControl ==
    /\ ret = NoRet
    /\ ret' = [op |-> "is_supported_time_control",
               r |-> is_supported_time_control(challenge, config)]
    /\ UNCHANGED <<now, config, challenge, recent_bot_challenges>>
    /\ ChallengeFrame

CallIsSupportedRecent ==
    /\ ret = NoRet
    /\ LET r == is_supported_recent(challenge, config, recent_bot_challenges)
       IN /\ ret' = [op |-> "is_supported_recent",
                     r |-> IF r.exc THEN Raise ELSE Ret(r.val)]
          /\ recent_bot_challenges' = r.rbc
    /\ UNCHANGED <<now, config, challenge>>
    /\ ChallengeFrame

CallScore ==
    /\ ret = NoRet
    /\ ret' = [op |-> "score", val |-> score(challenge)]
    /\ UNCHANGED <<now, config, challenge, recent_bot_challenges>>
    /\ ChallengeFrame

\* time passes between calls
Tick ==
    /\ now < MaxTime
    /\ now' = now + 1
    /\ ret' = NoRet
    /\ UNCHANGED <<config, recent_bot_challenges, challenge, game, moves_played,
                   last_ping>>

GameFrame == UNCHANGED <<config, recent_bot_challenges, challenge>>

\* The event loop replaces game.state by the server's new state: one more move.
\* A move has 4 characters, or 5 (a promotion); the two lengths are tried for
\* the first two moves, where the string's length crosses 6.
UpdateState ==
    /\ moves_played < MaxMoves
    /\ \E m \in (IF moves_played < 2 THEN UciMoves ELSE {"e2e4"}) :
          game' = [game EXCEPT !.state.moves = IF @ = "" THEN m ELSE @ \o " " \o m]
    /\ moves_played' = moves_played + 1
    /\ ret' = [op |-> "update"]
    /\ UNCHANGED <<now, last_ping>>
    /\ GameFrame

Ping ==
    /\ \E abort_in \in 1..MaxDelay, terminate_in \in 1..MaxDelay,
          disconnect_in \in 0..MaxDelay :
          /\ game' = ping(game, abort_in, terminate_in, disconnect_in)
          /\ last_ping' = [pinged |-> TRUE, at |-> now, abort_in |-> abort_in,
                           terminate_in |-> terminate_in,
                           disconnect_in |-> disconnect_in]
    /\ ret' = [op |-> "ping"]
    /\ UNCHANGED <<now, moves_played>>
    /\ GameFrame

-----------------------------------------------------------------------------
(* Specifications *)

InitGameIdle ==
    /\ game = Game(DefaultGameJson, "me", "https://lichess.org/", 1)
    /\ moves_played = 0
    /\ last_ping = NoPing

\* is_supported over configurations, challenges and tracking maps
Init ==
    /\ now = 0
    /\ config \in PolicyConfigs
    /\ recent_bot_challenges \in PolicyMaps
    /\ challenge = Challenge(DefaultCInfo, user_profile)
    /\ ret = NoRet
    /\ InitGameIdle

Next ==
    \/ NewChallenge(PolicyCInfos)
    \/ CallIsSupported
    \/ Tick

Spec == Init /\ [][Next]_vars

\* is_supported_time_control over thresholds and time controls
InitTimeControl ==
    /\ now = 0
    /\ config \in TimeControlConfigs
    /\ recent_bot_challenges = <<>>
    /\ \E c_info \in TimeControlCInfos : challenge = Challenge(c_info, user_profile)
    /\ ret = NoRet
    /\ InitGameIdle

NextTimeControl == CallIsSupportedTimeControl

SpecTimeControl == InitTimeControl /\ [][NextTimeControl]_vars

\* is_supported_recent over limits and tracking maps
InitRecent ==
    /\ now = 0
    /\ config \in RecentConfigs
    /\ recent_bot_challenges \in Maps({"alice", "bob"}, MaxTimers)
    /\ challenge = Challenge(DefaultCInfo, user_profile)
    /\ ret = NoRet
    /\ InitGameIdle

NextRecent ==
    \/ NewChallenge(RecentCInfos)
    \/ CallIsSupportedRecent
    \/ Tick

SpecRecent == InitRecent /\ [][NextRecent]_vars

\* score over challengers
InitScore ==
    /\ now = 0
    /\ config = DefaultCfg
    /\ recent_bot_challenges = <<>>
    /\ \E c_info \in ScoreCInfos : challenge = Challenge(c_info, user_profile)
    /\ ret = NoRet
    /\ InitGameIdle

NextScore == CallScore

SpecScore == InitScore /\ [][NextScore]_vars

\* a game: state updates, pings and the passage of time
InitGame ==
    /\ now = 0
    /\ config = DefaultCfg
    /\ recent_bot_challenges = <<>>
    /\ challenge = Challenge(DefaultCInfo, user_profile)
    /\ ret = NoRet
    /\ \E json \in GameJsons, abort_time \in 1..MaxDelay :
          game = Game(json, "me", "https://lichess.org/", abort_time)
    /\ moves_played = 0
    /\ last_ping = NoPing

NextGame ==
    \/ UpdateState
    \/ Ping
    \/ Tick

SpecGame == InitGame /\ [][NextGame]_vars

-----------------------------------------------------------------------------
(* Properties of Challenge.is_supported (Spec) *)

\* what the checks (a)-(g) say of the challenge under evaluation
IsBot == challenge.challenger.title = "BOT"
FailsNoBot == IsBot /\ ~config.accept_bot
FailsOnlyBot == config.only_bot /\ ~IsBot
TimeControlReturns(b) == is_supported_time_control(challenge, config) = Ret(b)
FailsVariant == challenge.variant \notin config.variants
FailsMode == (IF challenge.rated THEN "rated" ELSE "casual") \notin config.modes
FailsBlockList == challenge.challenger_name \in config.block_list
RecentReturns(rbc, b) ==
    LET r == is_supported_recent(challenge, config, rbc)
    IN ~r.exc /\ r.val = b

FirstFailure(rbc) ==
    IF FailsNoBot THEN "noBot"
    ELSE IF FailsOnlyBot THEN "onlyBot"
    ELSE IF TimeControlReturns(FALSE) THEN "timeControl"
    ELSE IF FailsVariant THEN "variant"
    ELSE IF FailsMode THEN (IF challenge.rated THEN "casual" ELSE "rated")
    ELSE IF FailsBlockList THEN "generic"
    ELSE IF RecentReturns(rbc, FALSE) THEN "later"
    ELSE NoneStr

FromSelf == challenge.challenger_name = user_profile.username

\* the rate-limit check (g) is reached: not self-originated, (a)-(f) all pass
ReachesRecent ==
    /\ ~FromSelf
    /\ ~FailsNoBot /\ ~FailsOnlyBot
    /\ TimeControlReturns(TRUE)
    /\ ~FailsVariant /\ ~FailsMode /\ ~FailsBlockList

\* a step of the evaluation raises
EvaluationRaises(rbc) ==
    /\ ~FromSelf
    /\ ~FailsNoBot /\ ~FailsOnlyBot
    /\ \/ is_supported_time_control(challenge, config).exc
       \/ ReachesRecent /\ is_supported_recent(challenge, config, rbc).exc

\* C1: for a challenge that is not self-originated, whose evaluation raises
\* no error, is_supported returns (False, reason of the first failing check
\* in the order noBot, onlyBot, timeControl, variant, casual/rated, generic,
\* later), and (True, None) iff none of the seven checks fails.
C1_FirstFailingCheckWins ==
    (ret.op = "is_supported" /\ ~FromSelf /\ ~EvaluationRaises(recent_bot_challenges))
    => LET reason == FirstFailure(recent_bot_challenges)
       IN /\ ret.val = <<reason = NoneStr, reason>>
          /\ ~ret.raised

\* a bot challenger refused by accept_bot, with an unsupported variant too, is
\* declined with "noBot"
C1_Witness ==
    /\ ret.op = "is_supported"
    /\ ~FromSelf
    /\ FailsNoBot /\ FailsVariant
    /\ ret.val = <<FALSE, "noBot">>

\* C2: a challenge whose challenger name is the local username is accepted
\* with no reason, whatever its other fields and the configuration.
C2_SelfAlwaysAccepted ==
    (ret.op = "is_supported" /\ FromSelf)
    => ret.val = <<TRUE, NoneStr>> /\ ~ret.raised

\* a self-originated bot challenge of an unsupported variant, bots refused
C2_Witness ==
    /\ ret.op = "is_supported"
    /\ FromSelf
    /\ FailsNoBot /\ FailsVariant
    /\ ret.val = <<TRUE, NoneStr>>

\* C3: is_supported never propagates an error, and when a step of the
\* evaluation raises its result is (False, "generic").
C3_ErrorsBecomeGeneric ==
    ret.op = "is_supported"
    => /\ ~ret.raised
       /\ EvaluationRaises(recent_bot_challenges) => ret.val = <<FALSE, "generic">>

\* the time-control comparison raised on a missing max_base
C3_Witness ==
    /\ ret.op = "is_supported"
    /\ config.max_base = None
    /\ is_supported_time_control(challenge, config).exc
    /\ EvaluationRaises(recent_bot_challenges)
    /\ ret.val = <<FALSE, "generic">>

\* s is t with some of its elements left out
IsSublist(s, t) ==
    \E f \in [1..Len(s) -> 1..Len(t)] :
        /\ \A i \in 1..Len(s) : s[i] = t[f[i]]
        /\ \A i, j \in 1..Len(s) : i < j => f[i] < f[j]

\* C10: a call of is_supported that does not reach the rate-limit check leaves
\* the tracking map unchanged; one that reaches it changes only the entry of
\* this challenger's name, to a sub-list of its previous timers.
C10_TrackingMapFrame ==
    [][ret'.op = "is_supported"
       => IF ReachesRecent
          THEN /\ DOMAIN recent_bot_challenges' =
                    DOMAIN recent_bot_challenges \cup {challenge.challenger_name}
               /\ \A n \in DOMAIN recent_bot_challenges \ {challenge.challenger_name} :
                    recent_bot_challenges'[n] = recent_bot_challenges[n]
               /\ IsSublist(recent_bot_challenges'[challenge.challenger_name],
                            DictGet(recent_bot_challenges, challenge.challenger_name))
          ELSE recent_bot_challenges' = recent_bot_challenges]_vars

\* bob's challenge was accepted and bob's expired timer pruned, while the
\* expired timer of alice is still in the map
C10_Witness ==
    /\ ret.op = "is_supported"
    /\ ret.val = <<TRUE, NoneStr>>
    /\ challenge.challenger_name = "bob"
    /\ now >= 1
    /\ recent_bot_challenges = [n \in {"alice", "bob"} |->
            IF n = "alice" THEN <<[starting_time |-> 0, duration |-> 1]>> ELSE <<>>]

-----------------------------------------------------------------------------
(* Properties of is_supported_time_control (SpecTimeControl) *)

\* C4: is_supported_time_control returns false when the speed is not allowed;
\* otherwise, when it returns, a clock game is supported iff increment and
\* base are within their inclusive bounds, a correspondence game iff its days
\* per turn are, an unlimited game iff max_days is infinite.
C4_TimeControl ==
    ret.op = "is_supported_time_control"
    => LET inc == challenge.increment
           base == challenge.base
           days == challenge.days
       IN IF challenge.speed \notin config.time_controls THEN ret.r = Ret(FALSE)
          ELSE ~ret.r.exc =>
               /\ (base # None /\ inc # None)
                  => (ret.r.val <=> /\ config.min_increment <= inc
                                    /\ inc <= config.max_increment
                                    /\ config.min_base <= base
                                    /\ base <= config.max_base)
               /\ (base = None /\ inc = None /\ days # None)
                  => (ret.r.val <=> /\ config.min_days <= days
                                    /\ days <= config.max_days)
               /\ (base = None /\ inc = None /\ days = None)
                  => (ret.r.val <=> config.max_days = inf)

\* a clock game of base 0 within the bounds is supported
C4_Witness ==
    /\ ret.op = "is_supported_time_control"
    /\ challenge.speed \in config.time_controls
    /\ challenge.base = 0 /\ challenge.increment = 1
    /\ config.max_days # inf
    /\ ret.r = Ret(TRUE)

-----------------------------------------------------------------------------
(* Properties of is_supported_recent (SpecRecent) *)

NumUnexpired(timers) ==
    Cardinality({i \in 1..Len(timers) :
                   now - timers[i].starting_time < timers[i].duration})

\* C5: is_supported_recent replaces the entry of the challenger's name by its
\* unexpired timers, and returns true for a non-bot, true for a bot when no
\* limit is configured, else true iff the unexpired timers of that name are
\* fewer than the limit.
C5_RecentRateLimit ==
    [][ret'.op = "is_supported_recent"
       => LET name == challenge.challenger_name
              before == DictGet(recent_bot_challenges, name)
              limit == config.max_recent_bot_challenges
          IN /\ name \in DOMAIN recent_bot_challenges'
             /\ recent_bot_challenges'[name] =
                  SelectSeq(before, LAMBDA t : now - t.starting_time < t.duration)
             /\ ret'.r = Ret(\/ challenge.challenger.title # "BOT"
                             \/ limit = None
                             \/ NumUnexpired(before) < limit)]_vars

\* a bot with 2 unexpired timers under a limit of 2 is refused
C5_Witness ==
    /\ ret.op = "is_supported_recent"
    /\ challenge.challenger_is_bot
    /\ config.max_recent_bot_challenges = 2
    /\ Len(recent_bot_challenges[challenge.challenger_name]) = 2
    /\ ret.r = Ret(FALSE)

-----------------------------------------------------------------------------
(* Properties of score (SpecScore) *)

\* C9: score is the challenger's rating (0 when absent) plus 200 if rated
\* plus 200 if the challenger has a title other than BOT; a bot has no
\* master title.
C9_Score ==
    ret.op = "score"
    => LET c == challenge.challenger
       IN /\ ret.val = (IF c.rating = None THEN 0 ELSE c.rating)
                       + (IF challenge.rated THEN 200 ELSE 0)
                       + (IF c.title \notin {NoneStr, "BOT"} THEN 200 ELSE 0)
          /\ c.title = "BOT" => challenge.challenger_master_title = NoneStr

\* a casual bot rated 2000 scores 2000
C9_Witness ==
    /\ ret.op = "score"
    /\ challenge.challenger.title = "BOT"
    /\ ~challenge.rated
    /\ challenge.challenger.rating = 2000
    /\ ret.val = 2000

-----------------------------------------------------------------------------
(* Properties of Game (SpecGame) *)

Rearmed(timer, delay) == timer = [starting_time |-> now, duration |-> delay]

\* C6 as stated: a ping with 6 or more moves played leaves the abort timer as
\* it was, a ping with fewer than 6 moves played re-arms it to abort_in, and
\* every ping re-arms the terminate and the disconnect timer.
C6_PingByMoveCount ==
    [][ret'.op = "ping"
       => /\ moves_played >= 6 => game'.abort_time = game.abort_time
          /\ moves_played < 6 => Rearmed(game'.abort_time, last_ping'.abort_in)
          /\ Rearmed(game'.terminate_time, last_ping'.terminate_in)
          /\ Rearmed(game'.disconnect_time, last_ping'.disconnect_in)]_vars

\* C6 amended: a ping while state["moves"], the move string, has 6 or more
\* characters (two or more moves played) leaves the abort timer as it was, a
\* ping while it has fewer (at most one move played) re-arms it to abort_in,
\* and every ping re-arms the terminate and the disconnect timer.
C6_PingByMoveStringLength ==
    [][ret'.op = "ping"
       => /\ Len(game.state.moves) >= 6 => game'.abort_time = game.abort_time
          /\ Len(game.state.moves) < 6 => Rearmed(game'.abort_time, last_ping'.abort_in)
          /\ moves_played >= 2 => game'.abort_time = game.abort_time
          /\ moves_played <= 1 => Rearmed(game'.abort_time, last_ping'.abort_in)
          /\ Rearmed(game'.terminate_time, last_ping'.terminate_in)
          /\ Rearmed(game'.disconnect_time, last_ping'.disconnect_in)]_vars

\* after a ping with two moves played the abort timer is older than the ping
C6_Witness ==
    /\ ret.op = "ping"
    /\ moves_played = 2
    /\ game.abort_time.starting_time < last_ping.at
    /\ game.terminate_time.starting_time = last_ping.at
    /\ game.disconnect_time.starting_time = last_ping.at

AbortTimerExpired == now - game.abort_time.starting_time >= game.abort_time.duration

\* C7 as stated: should_abort_now is true iff fewer than 6 moves were played
\* and the abort timer is expired.
C7_AbortByMoveCount ==
    should_abort_now(game) <=> (moves_played < 6 /\ AbortTimerExpired)

\* C7 amended: should_abort_now is true iff state["moves"], the move string,
\* has fewer than 6 characters (at most one move played) and the abort timer
\* is expired; with two or more moves played, so with 6 or more, it is false
\* even when the abort timer is expired.
C7_AbortByMoveStringLength ==
    /\ should_abort_now(game) <=> (Len(game.state.moves) < 6 /\ AbortTimerExpired)
    /\ moves_played <= 1 => (should_abort_now(game) <=> AbortTimerExpired)
    /\ moves_played >= 2 => ~should_abort_now(game)

\* 6 moves played, the abort timer expired, no abort
C7_Witness ==
    /\ moves_played >= 6
    /\ AbortTimerExpired
    /\ ~should_abort_now(game)

\* C8: should_disconnect_now is true from construction until the first ping;
\* after a ping with a positive disconnect_in it is false until that delay
\* has elapsed and true from then until the next ping.
C8_DisconnectTimer ==
    /\ ~last_ping.pinged => should_disconnect_now(game)
    /\ (last_ping.pinged /\ last_ping.disconnect_in > 0)
       => (should_disconnect_now(game) <=> now - last_ping.at >= last_ping.disconnect_in)

\* the delay of the last ping has elapsed and the game should disconnect
C8_Witness ==
    /\ last_ping.pinged
    /\ last_ping.disconnect_in > 0
    /\ now - last_ping.at >= last_ping.disconnect_in
    /\ should_disconnect_now(game)

====
